---------------------------- MODULE Spec2Model ----------------------------
(***************************************************************************)
(* A model of the incremental enrichment and merge engine of               *)
(* feedback_analyze_pipeline.py (class FeedbackAnalyzer).                  *)
(*                                                                         *)
(* A cell of a table is a sequence of tokens: a text is the sequence of    *)
(* its characters (<<>> is the empty string ''), and the values that are   *)
(* not texts are one-token sequences: NaN (pandas' missing value), None,   *)
(* NoCol (the dataframe has no such column) and Absent (a response has no  *)
(* such field).  Labels that the code only compares or copies (ratings,    *)
(* category names) are one-token sequences as well.                        *)
(*                                                                         *)
(* A dataframe is [index, rows]: the index labels and the rows, in order.  *)
(* A persisted file is [exists, readable, rows]: rows of CSV cells.        *)
(***************************************************************************)
EXTENDS Integers, Sequences, FiniteSets, TLC

VARIABLES
    fs,        \* the persisted files, by the attribute that names each
    run,       \* the operation in progress and its position
    log,       \* what the step that ran last did (history)
    prevFull,  \* the last completed full run (history)
    disp,      \* one dispatcher call: its tasks and its admission gate
    pure       \* inputs and result of one call of filter or merge

vars == <<fs, run, log, prevFull, disp, pure>>

---------------------------------------------------------------------------
(* Bounds of the model *)

MaxBase == 2
MaxBatch == 3
MaxK == 2
MaxRows == 2
MaxLiveBatch == 2
MaxAsked == 2
MaxKnown == 2
MaxEnv == 7
MaxMerge == 2
MaxReport == 2

---------------------------------------------------------------------------
(* Cell values *)

NaN == <<"NaN">>
None == <<"None">>
NoCol == <<"NoCol">>
Absent == <<"Absent">>
EmptyStr == <<>>

THUMBS_UP == <<"THUMBS_UP">>
THUMBS_DOWN == <<"THUMBS_DOWN">>
Other == <<"other">>
General == <<"General">>

Range(s) == {s[i] : i \in DOMAIN s}

SeqsUpTo(S, n) == UNION {[1..m -> S] : m \in 0..n}

\* Python truthiness of a result value: '' and None are falsy, NaN (a float
\* that is not zero) and every non-empty text are truthy.
Truthy(v) == v # EmptyStr /\ v # None

\* pd.isna
IsNa(v) == v = NaN \/ v = None

IsSpace(c) == c = " "

RECURSIVE LStrip(_)
LStrip(s) == IF s # <<>> /\ IsSpace(Head(s)) THEN LStrip(Tail(s)) ELSE s

RECURSIVE RStrip(_)
RStrip(s) ==
    IF s # <<>> /\ IsSpace(s[Len(s)]) THEN RStrip(SubSeq(s, 1, Len(s) - 1)) ELSE s

\* str.strip()
Strip(s) == RStrip(LStrip(s))

\* How an f-string renders a cell: a missing value prints as nan.
Fmt(v) == IF v = NaN THEN <<"n", "a", "n">> ELSE v

---------------------------------------------------------------------------
(* Rows and dataframes *)

T1 == <<"1">>
T2 == <<"2">>
Q == <<"q">>
A == <<"a">>

RawRow(rt, uq, ba, rating, comment) ==
    [request_time |-> rt, user_question |-> uq, bot_answer |-> ba,
     feedback_rating |-> rating, feedback_comment |-> comment,
     category |-> NoCol, sub_category |-> NoCol,
     feedback_comment_category |-> NoCol, scenario |-> NoCol]

Columns == {"request_time", "user_question", "bot_answer", "feedback_rating",
            "feedback_comment", "category", "sub_category",
            "feedback_comment_category", "scenario"}

EmptyDf == [index |-> <<>>, rows |-> <<>>]

\* A dataframe with a fresh RangeIndex 0..n-1
RangeDf(rows) == [index |-> [i \in 1..Len(rows) |-> i - 1], rows |-> rows]

HasCol(df, c) == df.rows # <<>> /\ df.rows[1][c] # NoCol

\* result_df[c] = v when the column does not exist yet
EnsureCol(df, c, v) ==
    IF HasCol(df, c) THEN df
    ELSE [df EXCEPT !.rows = [i \in DOMAIN df.rows |-> [df.rows[i] EXCEPT ![c] = v]]]

\* A write that takes the label for a position
SetAtPosition(df, idx, c, v) ==
    [df EXCEPT !.rows = [i \in DOMAIN df.rows |->
        IF i = idx THEN [df.rows[i] EXCEPT ![c] = v] ELSE df.rows[i]]]

\* result_df.at[idx, c] = v
SetAt(df, idx, c, v) ==
    [df EXCEPT !.rows = [i \in DOMAIN df.rows |->
        IF df.index[i] = idx THEN [df.rows[i] EXCEPT ![c] = v] ELSE df.rows[i]]]

\* The positions of the set S, in increasing order
RECURSIVE Positions(_)
Positions(S) ==
    IF S = {} THEN <<>>
    ELSE LET m == CHOOSE x \in S : \A y \in S : x <= y
         IN  <<m>> \o Positions(S \ {m})

\* df.loc[labels] for the positions ps
Take(df, ps) ==
    [index |-> [j \in DOMAIN ps |-> df.index[ps[j]]],
     rows |-> [j \in DOMAIN ps |-> df.rows[ps[j]]]]

---------------------------------------------------------------------------
(* Persisted files *)

NoFile == [exists |-> FALSE, readable |-> FALSE, rows |-> <<>>]
BadFile == [exists |-> TRUE, readable |-> FALSE, rows |-> <<>>]

\* DataFrame.to_csv writes a missing value and an empty string as an empty cell
WriteCell(v) == IF v = NaN \/ v = None THEN EmptyStr ELSE v

\* pd.read_csv reads an empty cell as a missing value
ReadCell(c) == IF c = EmptyStr THEN NaN ELSE c

to_csv(df) ==
    [exists |-> TRUE, readable |-> TRUE,
     rows |-> [i \in DOMAIN df.rows |->
                  [c \in Columns |-> WriteCell(df.rows[i][c])]]]

read_csv(file) ==
    RangeDf([i \in DOMAIN file.rows |->
                [c \in Columns |-> ReadCell(file.rows[i][c])]])

---------------------------------------------------------------------------
(* Record identity, the unprocessed filter and the merge *)

\* create_record_key with the rating as a fourth part
create_record_key_with_rating(row) ==
    Fmt(row.request_time) \o <<"|">> \o Fmt(row.user_question) \o <<"|">>
        \o Fmt(row.bot_answer) \o <<"|">> \o Fmt(row.feedback_rating)

create_record_key(row) ==
    Fmt(row.request_time) \o <<"|">> \o Fmt(row.user_question) \o <<"|">>
        \o Fmt(row.bot_answer)

KeysOf(df) == {create_record_key(df.rows[i]) : i \in DOMAIN df.rows}

\* get_processed_records that takes the rows of a file whose read fails
get_processed_records_partial(file) ==
    IF ~file.exists THEN {} ELSE KeysOf(read_csv(file))

\* get_processed_records that never finds a processed record
get_processed_records_none(file) == {}

get_processed_records(file) ==
    IF ~file.exists THEN {}
    ELSE IF ~file.readable THEN {}
    ELSE KeysOf(read_csv(file))

\* filter_unprocessed_records with the selection renumbered from 0
filter_unprocessed_records_reset(df, file) ==
    LET processed_keys == get_processed_records(file)
        unprocessed_indices ==
            {i \in DOMAIN df.rows : create_record_key(df.rows[i]) \notin processed_keys}
    IN  IF processed_keys = {} THEN df
        ELSE RangeDf(Take(df, Positions(unprocessed_indices)).rows)

\* filter_unprocessed_records that keeps every row
filter_unprocessed_records_all(df, file) == df

\* filter_unprocessed_records that takes a saved row without comment or with
\* the default category for one that was never processed
filter_unprocessed_records_retry(df, file) ==
    LET saved == IF file.exists /\ file.readable THEN read_csv(file) ELSE EmptyDf
        processed_keys ==
            {create_record_key(saved.rows[i]) :
                i \in {j \in DOMAIN saved.rows :
                          /\ ~IsNa(saved.rows[j].feedback_comment)
                          /\ saved.rows[j].category # Other}}
        unprocessed_indices ==
            {i \in DOMAIN df.rows : create_record_key(df.rows[i]) \notin processed_keys}
    IN  IF processed_keys = {} THEN df
        ELSE Take(df, Positions(unprocessed_indices))

filter_unprocessed_records(df, file) ==
    LET processed_keys == get_processed_records(file)
        unprocessed_indices ==
            {i \in DOMAIN df.rows : create_record_key(df.rows[i]) \notin processed_keys}
    IN  IF processed_keys = {} THEN df
        ELSE Take(df, Positions(unprocessed_indices))

\* A concatenation that puts the new batch first
ConcatNewFirst(a, b) == RangeDf(b.rows \o a.rows)

\* pd.concat([a, b], ignore_index=True)
Concat(a, b) == RangeDf(a.rows \o b.rows)

\* drop_duplicates with keep='first'
DropDuplicatesKeepFirst(df) ==
    LET IsFirst(i) == \A j \in DOMAIN df.rows :
            j < i => create_record_key(df.rows[j]) # create_record_key(df.rows[i])
    IN  Take(df, Positions({i \in DOMAIN df.rows : IsFirst(i)}))

\* drop_duplicates(subset=[key], keep='last'): the rows keep their labels
DropDuplicatesKeepLast(df) ==
    LET IsLast(i) == \A j \in DOMAIN df.rows :
            j > i => create_record_key(df.rows[j]) # create_record_key(df.rows[i])
    IN  Take(df, Positions({i \in DOMAIN df.rows : IsLast(i)}))

\* merge_with_existing_results that deduplicates whether or not there is a
\* prior output
merge_with_existing_results_dedup(new_df, file) ==
    DropDuplicatesKeepLast(
        Concat(IF file.exists /\ file.readable THEN read_csv(file) ELSE EmptyDf, new_df))

\* merge_with_existing_results that returns the new rows only
merge_with_existing_results_new_only(new_df, file) == new_df

merge_with_existing_results(new_df, file) ==
    IF ~file.exists THEN new_df
    ELSE IF ~file.readable THEN new_df
    ELSE DropDuplicatesKeepLast(Concat(read_csv(file), new_df))

---------------------------------------------------------------------------
(* The external capability and the three enrichment tasks *)

Kinds == {"comments", "categories", "comment_categories"}

\* A reply of the capability: ok is FALSE when the call raises or its content
\* does not parse; a field the parsed object lacks is Absent.
Resp(ok, comment, category, sub_category, fcc) ==
    [ok |-> ok, comment |-> comment, category |-> category,
     sub_category |-> sub_category, feedback_comment_category |-> fcc]

ErrorResponse == Resp(FALSE, Absent, Absent, Absent, Absent)
NoResponse == Resp(FALSE, NoCol, NoCol, NoCol, NoCol)

Generated == <<"g">>
Accounts == <<"Accounts">>
HsbcOne == <<"HSBC One">>
Irrelevant == <<"Irrelevant Answer">>

\* A reply whose comment is whitespace
Spaces == <<" ">>

Responses(kind) ==
    CASE kind = "comments" ->
            {ErrorResponse,
             Resp(TRUE, Absent, Absent, Absent, Absent),
             Resp(TRUE, Spaces, Absent, Absent, Absent),
             Resp(TRUE, Generated, Absent, Absent, Absent)}
      [] kind = "categories" ->
            {ErrorResponse,
             Resp(TRUE, Absent, Accounts, HsbcOne, Absent),
             Resp(TRUE, Absent, Accounts, Absent, Absent),
             Resp(TRUE, Absent, EmptyStr, HsbcOne, Absent)}
      [] OTHER ->
            {ErrorResponse,
             Resp(TRUE, Absent, Absent, Absent, Absent),
             Resp(TRUE, Absent, Absent, Absent, Irrelevant)}

\* result.get(field, default)
Get(resp, field, default) == IF resp[field] = Absent THEN default ELSE resp[field]

generate_bot_comment_async(resp) ==
    IF ~resp.ok THEN None ELSE Get(resp, "comment", EmptyStr)

categorize_question_async(resp) ==
    IF ~resp.ok THEN <<Other, General>>
    ELSE <<Get(resp, "category", Other), Get(resp, "sub_category", General)>>

\* The guard without its whitespace test
CommentIsBlankNoStrip(feedback_comment) ==
    ~Truthy(feedback_comment) \/ IsNa(feedback_comment)

\* The guard of categorize_feedback_comment_async: a comment that is empty,
\* missing or only whitespace is answered '' without a call.
CommentIsBlank(feedback_comment) ==
    ~Truthy(feedback_comment) \/ IsNa(feedback_comment)
        \/ Strip(feedback_comment) = EmptyStr

\* categorize_feedback_comment_async with "General" where no label is obtained
categorize_feedback_comment_async_general(feedback_comment, resp) ==
    IF CommentIsBlank(feedback_comment) THEN EmptyStr
    ELSE IF ~resp.ok THEN General
    ELSE Get(resp, "feedback_comment_category", General)

categorize_feedback_comment_async(feedback_comment, resp) ==
    IF CommentIsBlank(feedback_comment) THEN EmptyStr
    ELSE IF ~resp.ok THEN EmptyStr
    ELSE Get(resp, "feedback_comment_category", EmptyStr)

identify_thumbs_down_empty_feedback(df) ==
    {i \in DOMAIN df.rows :
        /\ df.rows[i].feedback_rating = THUMBS_DOWN
        /\ (IsNa(df.rows[i].feedback_comment)
              \/ Strip(df.rows[i].feedback_comment) = EmptyStr)}

\* process_single_comment's test, without the rating
NeedsCommentAnyRating(row) ==
    IsNa(row.feedback_comment) \/ Strip(row.feedback_comment) = EmptyStr

\* process_single_comment: only THUMBS_DOWN with an empty comment is processed
NeedsComment(row) ==
    /\ row.feedback_rating = THUMBS_DOWN
    /\ (IsNa(row.feedback_comment) \/ Strip(row.feedback_comment) = EmptyStr)

\* process_single_comment_category: non-THUMBS_DOWN rows are skipped
SkipsCommentCategory(row) == row.feedback_rating # THUMBS_DOWN

\* Whether the task of a row enters "async with semaphore"
Gated(kind, row) ==
    CASE kind = "comments" -> NeedsComment(row)
      [] kind = "categories" -> TRUE
      [] OTHER -> ~SkipsCommentCategory(row)

\* Whether a task that holds a slot awaits the capability
CallsCapability(kind, row) ==
    IF kind = "comment_categories" THEN ~CommentIsBlank(row.feedback_comment)
    ELSE TRUE

\* What a task returns without entering the gate
UngatedResult(kind, idx, row) ==
    IF kind = "comments" THEN <<idx, row.feedback_comment>> ELSE <<idx, EmptyStr>>

\* What a task returns from inside the gate, given the capability's reply
GatedResult(kind, idx, row, resp) ==
    CASE kind = "comments" -> <<idx, generate_bot_comment_async(resp)>>
      [] kind = "categories" -> <<idx>> \o categorize_question_async(resp)
      [] OTHER ->
            <<idx, categorize_feedback_comment_async(row.feedback_comment, resp)>>

\* result_df = df.copy() and the annotation column(s) added when missing
PrepareResult(kind, df) ==
    CASE kind = "comments" -> EnsureCol(df, "feedback_comment", EmptyStr)
      [] kind = "categories" ->
            EnsureCol(EnsureCol(df, "category", EmptyStr), "sub_category", EmptyStr)
      [] OTHER -> EnsureCol(df, "feedback_comment_category", EmptyStr)

\* An update loop that writes every result, the empty ones included
ApplyOneAlways(kind, result_df, r) ==
    CASE kind = "comments" -> SetAt(result_df, r[1], "feedback_comment", r[2])
      [] kind = "categories" ->
            SetAt(SetAt(result_df, r[1], "category", r[2]), r[1], "sub_category", r[3])
      [] OTHER -> SetAt(result_df, r[1], "feedback_comment_category", r[2])

\* The body of "for result in results": one result written to its own row
ApplyOne(kind, result_df, r) ==
    CASE kind = "comments" ->
            IF Truthy(r[2]) THEN SetAt(result_df, r[1], "feedback_comment", r[2])
            ELSE result_df
      [] kind = "categories" ->
            IF Truthy(r[2]) /\ Truthy(r[3])
            THEN SetAt(SetAt(result_df, r[1], "category", r[2]),
                       r[1], "sub_category", r[3])
            ELSE result_df
      [] OTHER ->
            IF Truthy(r[2])
            THEN SetAt(result_df, r[1], "feedback_comment_category", r[2])
            ELSE result_df

\* The update loop, leaving at the first result that carries no value
RECURSIVE ApplyResultsStopAtBlank(_, _, _)
ApplyResultsStopAtBlank(kind, result_df, results) ==
    IF results = <<>> THEN result_df
    ELSE IF ~Truthy(Head(results)[2]) THEN result_df
    ELSE ApplyResultsStopAtBlank(kind, ApplyOne(kind, result_df, Head(results)),
                                 Tail(results))

\* "Update the dataframe with results"
RECURSIVE ApplyResults(_, _, _)
ApplyResults(kind, result_df, results) ==
    IF results = <<>> THEN result_df
    ELSE ApplyResults(kind, ApplyOne(kind, result_df, Head(results)), Tail(results))

---------------------------------------------------------------------------
(* One dispatcher call: add_comments_async, add_categories_async or       *)
(* add_feedback_comment_categories_async on a batch, with its tasks       *)
(* interleaving at the gate and at the capability call.                   *)

\* asyncio.Semaphore: acquire goes through while the value is positive
CanAcquireAlways(value) == TRUE

CanAcquire(value) == value > 0

\* Leaving the gate without giving the slot back
ReleaseNothing(value) == value

Release(value) == value + 1

DispatchIdle(kind, df, k) ==
    [kind |-> kind, df |-> df, max_concurrent |-> k, phase |-> "called",
     semaphore |-> 0, pc |-> <<>>, results |-> <<>>, got |-> <<>>,
     sent |-> {}, result_df |-> EmptyDf, hung |-> 0]

\* A capability that answers every call
HangsNever(i) == FALSE

\* The capability call of task i never returns (disp.hung names the task, 0
\* when every call returns)
Hangs(i) == i = disp.hung

\* The call up to gather: the copy, the early return of add_comments_async,
\* the semaphore, and every task run to its first suspension point.
Call ==
    /\ disp.phase = "called"
    /\ IF disp.kind = "comments" /\ identify_thumbs_down_empty_feedback(disp.df) = {}
       THEN disp' = [disp EXCEPT !.phase = "returned",
                                 !.result_df = PrepareResult(disp.kind, disp.df)]
       ELSE disp' = [disp EXCEPT
                !.phase = "running",
                !.semaphore = disp.max_concurrent,
                !.result_df = PrepareResult(disp.kind, disp.df),
                !.pc = [i \in DOMAIN disp.df.rows |->
                          IF Gated(disp.kind, disp.df.rows[i]) THEN "gate" ELSE "done"],
                !.results = [i \in DOMAIN disp.df.rows |->
                          IF Gated(disp.kind, disp.df.rows[i]) THEN <<>>
                          ELSE UngatedResult(disp.kind, disp.df.index[i], disp.df.rows[i])],
                !.got = [i \in DOMAIN disp.df.rows |-> NoResponse]]
    /\ UNCHANGED <<fs, run, log, prevFull, pure>>

\* A task passes the gate: it starts its capability call, or (a blank comment
\* in comment-failure classification) leaves at once with ''.
Acquire(i) ==
    /\ disp.phase = "running"
    /\ disp.pc[i] = "gate"
    /\ CanAcquire(disp.semaphore)
    /\ IF CallsCapability(disp.kind, disp.df.rows[i])
       THEN disp' = [disp EXCEPT !.semaphore = @ - 1, !.pc[i] = "call",
                                 !.sent = @ \cup {i}]
       ELSE disp' = [disp EXCEPT !.pc[i] = "done",
                        !.results[i] = GatedResult(disp.kind, disp.df.index[i],
                                                   disp.df.rows[i], NoResponse)]
    /\ UNCHANGED <<fs, run, log, prevFull, pure>>

\* The capability answers a call (or fails); the task leaves the gate.
Return(i) ==
    /\ disp.phase = "running"
    /\ disp.pc[i] = "call"
    /\ ~Hangs(i)
    /\ \E resp \in Responses(disp.kind) :
          disp' = [disp EXCEPT !.semaphore = Release(@), !.pc[i] = "done",
                               !.got[i] = resp,
                               !.results[i] = GatedResult(disp.kind, disp.df.index[i],
                                                          disp.df.rows[i], resp)]
    /\ UNCHANGED <<fs, run, log, prevFull, pure>>

\* gather returns once every task is done, and the results are written
GatherReturn ==
    /\ disp.phase = "running"
    /\ \A i \in DOMAIN disp.pc : disp.pc[i] = "done"
    /\ disp' = [disp EXCEPT !.phase = "returned",
                            !.result_df = ApplyResults(disp.kind, disp.result_df,
                                                       disp.results)]
    /\ UNCHANGED <<fs, run, log, prevFull, pure>>

UserText == <<"u">>
Blank == <<" ">>

\* The rows a batch is drawn from: every rating with a missing, a whitespace
\* and a written comment
BatchRows ==
    {RawRow(T1, Q, A, THUMBS_DOWN, NaN), RawRow(T1, Q, A, THUMBS_DOWN, Blank),
     RawRow(T1, Q, A, THUMBS_DOWN, UserText), RawRow(T1, Q, A, THUMBS_UP, NaN),
     RawRow(T1, Q, A, THUMBS_UP, UserText)}

\* The labels of a batch that the filter selected: here every second row of
\* the dataset it came from (1, 3, 5, ...)
BatchIndex(n) == [i \in 1..n |-> 2 * i - 1]

InitDispatch ==
    /\ \E kind \in Kinds, k \in 1..MaxK, rows \in SeqsUpTo(BatchRows, MaxBatch) :
          disp = DispatchIdle(kind, [index |-> BatchIndex(Len(rows)), rows |-> rows], k)
    /\ fs = <<>> /\ run = <<>> /\ log = <<>> /\ prevFull = <<>> /\ pure = <<>>

NextDispatch ==
    \/ Call
    \/ \E i \in 1..MaxBatch : i \in DOMAIN disp.pc /\ Acquire(i)
    \/ \E i \in 1..MaxBatch : i \in DOMAIN disp.pc /\ Return(i)
    \/ GatherReturn

SpecDispatch == InitDispatch /\ [][NextDispatch]_vars

\* The event loop runs every task that can take a step, and every capability
\* call that was started returns or fails
\* The batches whose completion is followed: a row for each path through a
\* task (no gate, gate without call, gate and call)
LiveRows ==
    {RawRow(T1, Q, A, THUMBS_DOWN, NaN), RawRow(T1, Q, A, THUMBS_DOWN, UserText),
     RawRow(T1, Q, A, THUMBS_UP, UserText)}

InitDispatchLive ==
    /\ \E kind \in Kinds, k \in 1..MaxK, rows \in SeqsUpTo(LiveRows, MaxLiveBatch) :
          disp = DispatchIdle(kind, [index |-> BatchIndex(Len(rows)), rows |-> rows], k)
    /\ fs = <<>> /\ run = <<>> /\ log = <<>> /\ prevFull = <<>> /\ pure = <<>>

SpecDispatchLive ==
    InitDispatchLive /\ [][NextDispatch]_vars /\ WF_vars(NextDispatch)

\* A dispatcher call with at least two slots in which the capability call of
\* one task may never return
InitDispatchHung ==
    /\ \E kind \in Kinds, k \in 2..MaxK, rows \in SeqsUpTo(LiveRows, MaxLiveBatch) :
          LET df == [index |-> BatchIndex(Len(rows)), rows |-> rows]
          IN  \E h \in {0} \cup {i \in DOMAIN rows : Gated(kind, rows[i])
                                        /\ CallsCapability(kind, rows[i])} :
                  disp = [DispatchIdle(kind, df, k) EXCEPT !.hung = h]
    /\ fs = <<>> /\ run = <<>> /\ log = <<>> /\ prevFull = <<>> /\ pure = <<>>

SpecDispatchHung ==
    InitDispatchHung /\ [][NextDispatch]_vars /\ WF_vars(NextDispatch)

---------------------------------------------------------------------------
(* The limit a dispatcher call creates its semaphore with *)

DefaultLimit == 20

\* An optional integer: the environment variable and the argument of a call
Num(n) == [tag |-> "int", value |-> n]
Unset == [tag |-> "unset", value |-> 0]
NotPassed == [tag |-> "not passed", value |-> 0]
NoneArg == [tag |-> "None", value |-> 0]

\* int(os.getenv('MAX_CONCURRENT_REQUESTS', 20))
ConfiguredLimit(env) == IF env = Unset THEN DefaultLimit ELSE env.value

\* The default value of the parameter max_concurrent
ParameterDefault(kind) ==
    IF kind = "comment_categories" THEN Num(DefaultLimit) ELSE NoneArg

\* The value the semaphore is created with: the parameter, or
\* self.max_concurrent when the parameter is None
ResolveLimit(kind, passed, self_max_concurrent) ==
    LET max_concurrent == IF passed = NotPassed THEN ParameterDefault(kind) ELSE passed
    IN  IF max_concurrent = NoneArg THEN self_max_concurrent ELSE max_concurrent.value

InitLimit ==
    /\ \E env \in {Unset} \cup {Num(n) : n \in 1..MaxEnv} :
          disp = [pc |-> "start", env |-> env, self_max_concurrent |-> 0,
                  kind |-> "none", passed |-> NotPassed, semaphore |-> 0]
    /\ fs = <<>> /\ run = <<>> /\ log = <<>> /\ prevFull = <<>> /\ pure = <<>>

\* FeedbackAnalyzer.__init__ reads the configuration
Construct ==
    /\ disp.pc = "start"
    /\ disp' = [disp EXCEPT !.pc = "constructed",
                            !.self_max_concurrent = ConfiguredLimit(disp.env)]
    /\ UNCHANGED <<fs, run, log, prevFull, pure>>

\* A dispatcher is called, with or without a limit, and creates its semaphore
CreateSemaphore ==
    /\ disp.pc = "constructed"
    /\ \E kind \in Kinds, passed \in {NotPassed, NoneArg} \cup {Num(n) : n \in 1..MaxK} :
          disp' = [disp EXCEPT !.pc = "gate", !.kind = kind, !.passed = passed,
                       !.semaphore = ResolveLimit(kind, passed, disp.self_max_concurrent)]
    /\ UNCHANGED <<fs, run, log, prevFull, pure>>

NextLimit == Construct \/ CreateSemaphore

SpecLimit == InitLimit /\ [][NextLimit]_vars

---------------------------------------------------------------------------
(* filter and merge as functions of their inputs *)

Old == <<"old">>
New == <<"new">>

Annotated(row, a) == [row EXCEPT !.category = a, !.sub_category = General]

PureRows ==
    {Annotated(RawRow(t, Q, A, r, NaN), a) :
        t \in {T1, T2}, r \in {THUMBS_DOWN}, a \in {Old, New}}
    \cup {Annotated(RawRow(T1, Q, A, THUMBS_UP, NaN), Old)}

InitPure ==
    /\ \E cur \in SeqsUpTo(PureRows, MaxRows), prior \in SeqsUpTo(PureRows, MaxRows),
          shift \in 0..1, st \in {"absent", "unreadable", "readable"} :
          pure = [df |-> [index |-> [i \in DOMAIN cur |-> i - 1 + shift], rows |-> cur],
                  file |-> CASE st = "absent" -> NoFile
                             [] st = "unreadable" ->
                                    [to_csv(RangeDf(prior)) EXCEPT !.readable = FALSE]
                             [] OTHER -> to_csv(RangeDf(prior)),
                  op |-> "none", out |-> EmptyDf]
    /\ fs = <<>> /\ run = <<>> /\ log = <<>> /\ prevFull = <<>> /\ disp = <<>>

ApplyFilter ==
    /\ pure.op = "none"
    /\ pure' = [pure EXCEPT !.op = "filter",
                            !.out = filter_unprocessed_records(pure.df, pure.file)]
    /\ UNCHANGED <<fs, run, log, prevFull, disp>>

ApplyMerge ==
    /\ pure.op = "none"
    /\ pure' = [pure EXCEPT !.op = "merge",
                            !.out = merge_with_existing_results(pure.df, pure.file)]
    /\ UNCHANGED <<fs, run, log, prevFull, disp>>

NextPure == ApplyFilter \/ ApplyMerge

SpecPure == InitPure /\ [][NextPure]_vars

---------------------------------------------------------------------------
(* create_record_key as a function of two rows *)

\* Identity fields, some of which hold the character the key is joined with
RequestTimes == {T1, <<"1", "|", "q">>}
UserQuestions == {Q, A, <<"q", "|", "a">>, NaN}
BotAnswers == {A, <<"a", "|", "a">>}

\* A row as it is in an annotation output: annotated, saved and read back
ReadBack(row) == read_csv(to_csv(RangeDf(<<row>>))).rows[1]

\* The rows of one record in the base dataset and in an annotation output
KeyRows ==
    UNION {{RawRow(rt, uq, ba, THUMBS_DOWN, NaN),
            ReadBack(Annotated(RawRow(rt, uq, ba, THUMBS_UP, UserText), Old))} :
              rt \in RequestTimes, uq \in UserQuestions, ba \in BotAnswers}

InitKey ==
    /\ \E a \in KeyRows, b \in KeyRows :
          pure = [a |-> a, b |-> b, op |-> "none", key_a |-> <<>>, key_b |-> <<>>,
                  again_a |-> <<>>, again_b |-> <<>>]
    /\ fs = <<>> /\ run = <<>> /\ log = <<>> /\ prevFull = <<>> /\ disp = <<>>

\* The key of each row is computed
ComputeKeys ==
    /\ pure.op = "none"
    /\ pure' = [pure EXCEPT !.op = "keyed",
                            !.key_a = create_record_key(pure.a),
                            !.key_b = create_record_key(pure.b)]
    /\ UNCHANGED <<fs, run, log, prevFull, disp>>

\* and computed once more
ComputeKeysAgain ==
    /\ pure.op = "keyed"
    /\ pure' = [pure EXCEPT !.op = "keyed again",
                            !.again_a = create_record_key(pure.a),
                            !.again_b = create_record_key(pure.b)]
    /\ UNCHANGED <<fs, run, log, prevFull, disp>>

NextKey == ComputeKeys \/ ComputeKeysAgain

SpecKey == InitKey /\ [][NextKey]_vars

---------------------------------------------------------------------------
(* The scenario tagger *)

ScenarioA == <<"A">>
ScenarioB == <<"B">>

\* str.lower() on one character
LowerChar(c) ==
    CASE c = "Q" -> "q"
      [] c = "W" -> "w"
      [] OTHER -> c

\* str.lower() that changes nothing
LowerIdentity(s) == s

Lower(s) == [i \in DOMAIN s |-> LowerChar(s[i])]

\* set(mapped_df['question'].str.lower().str.strip()); a missing or unreadable
\* file gives the empty set
load_mapped_questions(file) ==
    IF ~file.exists \/ ~file.readable THEN {}
    ELSE {IF ReadCell(file.rows[i].question) = NaN THEN NaN
          ELSE Strip(Lower(file.rows[i].question)) : i \in DOMAIN file.rows}

\* add_scenario_mapping that leaves the new column empty when no question is
\* loaded
add_scenario_mapping_no_default(df, file) ==
    LET mapped_questions == load_mapped_questions(file)
        Tag(row) ==
            IF Strip(Lower(Fmt(row.user_question))) \in mapped_questions
            THEN ScenarioA ELSE ScenarioB
    IN  IF mapped_questions = {} THEN EnsureCol(df, "scenario", EmptyStr)
        ELSE [df EXCEPT !.rows =
                [i \in DOMAIN df.rows |-> [df.rows[i] EXCEPT !.scenario = Tag(df.rows[i])]]]

add_scenario_mapping(df, file) ==
    LET mapped_questions == load_mapped_questions(file)
        Tag(row) ==
            IF Strip(Lower(Fmt(row.user_question))) \in mapped_questions
            THEN ScenarioA ELSE ScenarioB
    IN  IF mapped_questions = {} THEN EnsureCol(df, "scenario", ScenarioB)
        ELSE [df EXCEPT !.rows =
                [i \in DOMAIN df.rows |-> [df.rows[i] EXCEPT !.scenario = Tag(df.rows[i])]]]

\* The questions of the examples, over the characters w, q, h, space and ?:
\* "what is fps", "What is FPS?", " What is FPS ", "what  is fps" and
\* "How do I open an account?"
KnownFps == <<"w", " ", "q">>
AskedFps == <<"W", " ", "Q", "?">>
AskedFpsPadded == <<" ", "W", " ", "Q", " ">>
AskedFpsWide == <<"w", " ", " ", "q">>
AskedAccount == <<"h", "?">>

\* The user_question values of the records that are tagged
AskedQuestions == {KnownFps, AskedFps, AskedFpsPadded, AskedFpsWide, AskedAccount, NaN}

\* The cells of the reference list's question column
KnownQuestions == {KnownFps, <<"W", " ", "Q", " ">>, <<"h">>}

MappedFile(questions) ==
    [exists |-> TRUE, readable |-> TRUE,
     rows |-> [i \in DOMAIN questions |-> [question |-> questions[i]]]]

InitScenario ==
    /\ \E asked \in SeqsUpTo(AskedQuestions, MaxAsked),
          known \in SeqsUpTo(KnownQuestions, MaxKnown),
          st \in {"absent", "unreadable", "readable"} :
          pure = [df |-> RangeDf([i \in DOMAIN asked |->
                            RawRow(T1, asked[i], A, THUMBS_UP, NaN)]),
                  file |-> CASE st = "absent" -> NoFile
                             [] st = "unreadable" -> BadFile
                             [] OTHER -> MappedFile(known),
                  op |-> "none", out |-> EmptyDf]
    /\ fs = <<>> /\ run = <<>> /\ log = <<>> /\ prevFull = <<>> /\ disp = <<>>

ApplyScenario ==
    /\ pure.op = "none"
    /\ pure' = [pure EXCEPT !.op = "scenario",
                            !.out = add_scenario_mapping(pure.df, pure.file)]
    /\ UNCHANGED <<fs, run, log, prevFull, disp>>

NextScenario == ApplyScenario

SpecScenario == InitScenario /\ [][NextScenario]_vars

---------------------------------------------------------------------------
(* The pipeline over the persisted files *)

OutputFiles == {"comments_output_file", "categories_output_file",
                "comment_categories_output_file", "scenarios_output_file"}

FileNames == OutputFiles \cup {"data_file", "merged_output_file", "mapped_questions_file"}

Steps == Kinds \cup {"scenarios"}

\* The file a step loads and the file it filters against, merges into and saves
InputFile(step) ==
    IF step = "comment_categories" THEN "comments_output_file" ELSE "data_file"

OutputFile(step) ==
    CASE step = "comments" -> "comments_output_file"
      [] step = "categories" -> "categories_output_file"
      [] step = "comment_categories" -> "comment_categories_output_file"
      [] OTHER -> "scenarios_output_file"

\* The columns merge_files takes from the output of a step
OutputColumns(step) ==
    CASE step = "comments" -> {"feedback_comment"}
      [] step = "categories" -> {"category", "sub_category"}
      [] step = "comment_categories" -> {"feedback_comment_category"}
      [] OTHER -> {"scenario"}

\* A full run that classifies the comments before it generates them
StepNoCommentsLast(step) ==
    CASE step = "comments" -> 3
      [] step = "categories" -> 2
      [] step = "comment_categories" -> 1
      [] OTHER -> 4

\* The position of a step in run_full_analysis
StepNo(step) ==
    CASE step = "comments" -> 1
      [] step = "categories" -> 2
      [] step = "comment_categories" -> 3
      [] OTHER -> 4

\* load_feedback_data, and the load of the comments file: a missing file gives
\* the empty dataframe
Load(file) == IF file.exists THEN read_csv(file) ELSE EmptyDf

\* add_comments_async returns before it creates any task when no row is a
\* THUMBS_DOWN with an empty comment
EarlyReturn(kind, df) ==
    kind = "comments"
        /\ identify_thumbs_down_empty_feedback(PrepareResult(kind, df)) = {}

\* The rows of a batch whose task calls the capability
Callers(kind, df) ==
    IF kind \notin Kinds \/ EarlyReturn(kind, df) THEN {}
    ELSE {i \in DOMAIN df.rows :
            Gated(kind, df.rows[i]) /\ CallsCapability(kind, df.rows[i])}

\* A dispatcher call that returns before its update loop
EnrichUnapplied(kind, df, replies) == PrepareResult(kind, df)

\* What a dispatcher call returns when the capability answers replies[i] to
\* the call of row i: the tasks' results written by the update loop.  The
\* result does not depend on the order in which the tasks ran.
Enrich(kind, df, replies) ==
    IF EarlyReturn(kind, df) THEN PrepareResult(kind, df)
    ELSE ApplyResults(kind, PrepareResult(kind, df),
            [i \in DOMAIN df.rows |->
                IF ~Gated(kind, df.rows[i])
                THEN UngatedResult(kind, df.index[i], df.rows[i])
                ELSE GatedResult(kind, df.index[i], df.rows[i],
                        IF i \in DOMAIN replies THEN replies[i] ELSE NoResponse)])

\* The annotation a step computes for its unprocessed rows
Annotate(step, df, replies) ==
    IF step = "scenarios" THEN add_scenario_mapping(df, fs["mapped_questions_file"])
    ELSE Enrich(step, df, replies)

\* The outcomes of a capability call that the files of a step tell apart: the
\* call failed, or it returned a usable value (the partial replies are the
\* subject of the dispatcher specification)
Outcomes(kind) ==
    {ErrorResponse,
     CASE kind = "comments" -> Resp(TRUE, Generated, Absent, Absent, Absent)
       [] kind = "categories" -> Resp(TRUE, Absent, Accounts, HsbcOne, Absent)
       [] OTHER -> Resp(TRUE, Absent, Absent, Absent, Irrelevant)}

\* The outcomes of a capability that answers every call
Succeeds(kind) == Outcomes(kind) \ {ErrorResponse}

NoLog ==
    [step |-> "none", start_keys |-> {}, unprocessed |-> 0, sent |-> {},
     saved |-> FALSE, prior_keys |-> {}, batch_keys |-> {}, prior_exists |-> FALSE,
     failed |-> {}]

Idle == [op |-> "idle", pc |-> 0, unprocessed |-> <<>>]

NoFull == [valid |-> FALSE, second |-> FALSE, base |-> <<>>, analyzed |-> NoFile,
           unprocessed |-> <<>>]

\* A step may run from the menu (nothing in progress) or as its turn comes
\* in run_full_analysis
Turn(n) == run.op = "idle" \/ (run.op = "full" /\ run.pc = n)

\* run after a step of the full run: the next step, or (step 1 returned an
\* empty dataframe) the end of the run
Advance(size, empty) ==
    IF run.op = "idle" THEN run
    ELSE IF empty THEN Idle
    ELSE [run EXCEPT !.pc = @ + 1, !.unprocessed = Append(@, size)]

\* process_comments_only, process_categories_only,
\* process_feedback_comment_categories_only and process_scenarios_only: load,
\* filter, annotate the unprocessed rows, merge with the prior output, save.
ProcessWith(step, answers) ==
    LET outcomes == IF answers THEN Succeeds(step) ELSE Outcomes(step)
        df == Load(fs[InputFile(step)])
        out == fs[OutputFile(step)]
        unprocessed_df == filter_unprocessed_records(df, out)
        start == [NoLog EXCEPT !.step = step,
                               !.start_keys = get_processed_records(out),
                               !.prior_exists = out.exists]
    IN  /\ Turn(StepNo(step))
        /\ IF df.rows = <<>>
           THEN /\ fs' = fs
                /\ log' = start
                /\ run' = Advance(0, step = "comments")
                /\ prevFull' = IF run.op = "full" /\ step = "comments"
                               THEN NoFull ELSE prevFull
           ELSE IF unprocessed_df.rows = <<>>
           THEN /\ fs' = fs
                /\ log' = start
                /\ run' = Advance(0, FALSE)
                /\ prevFull' = prevFull
           ELSE \E replies \in [Callers(step, unprocessed_df) -> outcomes] :
                  LET new_results_df == Annotate(step, unprocessed_df, replies)
                      final_df == merge_with_existing_results(new_results_df, out)
                  IN  /\ fs' = [fs EXCEPT ![OutputFile(step)] = to_csv(final_df)]
                      /\ log' = [start EXCEPT
                            !.unprocessed = Len(unprocessed_df.rows),
                            !.sent = {create_record_key(unprocessed_df.rows[i]) :
                                        i \in Callers(step, unprocessed_df)},
                            !.saved = TRUE,
                            !.prior_keys = KeysOf(Load(out)),
                            !.batch_keys = KeysOf(new_results_df),
                            !.failed = {create_record_key(unprocessed_df.rows[i]) :
                                          i \in {j \in Callers(step, unprocessed_df) :
                                                    ~replies[j].ok}}]
                      /\ run' = Advance(Len(unprocessed_df.rows), FALSE)
                      /\ prevFull' = prevFull
        /\ UNCHANGED <<disp, pure>>

\* A step whose capability calls may fail
Process(step) == ProcessWith(step, FALSE)

process_comments_only == Process("comments")

process_categories_only == Process("categories")

process_feedback_comment_categories_only == Process("comment_categories")

process_scenarios_only == Process("scenarios")

\* A consolidation that joins on the record key instead of the index label
AssignColumnByKey(result_df, c, other) ==
    [result_df EXCEPT !.rows = [i \in DOMAIN result_df.rows |->
        [result_df.rows[i] EXCEPT ![c] =
            IF \E j \in DOMAIN other.rows :
                  create_record_key(other.rows[j]) = create_record_key(result_df.rows[i])
            THEN other.rows[CHOOSE j \in DOMAIN other.rows :
                    create_record_key(other.rows[j]) =
                        create_record_key(result_df.rows[i])][c]
            ELSE NaN]]]

\* result_df[c] = other[c]: the values are aligned on the index labels, and a
\* label that other does not have gets a missing value
AssignColumn(result_df, c, other) ==
    [result_df EXCEPT !.rows = [i \in DOMAIN result_df.rows |->
        [result_df.rows[i] EXCEPT ![c] =
            IF \E j \in DOMAIN other.rows : other.index[j] = result_df.index[i]
            THEN other.rows[CHOOSE j \in DOMAIN other.rows :
                                other.index[j] = result_df.index[i]][c]
            ELSE NaN]]]

\* A consolidation that takes a missing output file for an empty one
RECURSIVE AssignColumnsAlways(_, _, _)
AssignColumnsAlways(result_df, cs, file) ==
    IF cs = <<>> THEN result_df
    ELSE AssignColumnsAlways(
            AssignColumn(result_df, Head(cs),
                         IF file.exists THEN read_csv(file) ELSE EmptyDf),
            Tail(cs), file)

\* The columns merge_files takes from an output file that exists
RECURSIVE AssignColumns(_, _, _)
AssignColumns(result_df, cs, file) ==
    IF ~file.exists \/ cs = <<>> THEN result_df
    ELSE AssignColumns(AssignColumn(result_df, Head(cs), read_csv(file)), Tail(cs), file)

\* The dataframe merge_files builds from the base data and the four outputs
MergedDf(base_df) ==
    AssignColumns(
        AssignColumns(
            AssignColumns(
                AssignColumns(base_df, <<"feedback_comment">>, fs["comments_output_file"]),
                <<"category", "sub_category">>, fs["categories_output_file"]),
            <<"feedback_comment_category">>, fs["comment_categories_output_file"]),
        <<"scenario">>, fs["scenarios_output_file"])

merge_files ==
    LET base_df == Load(fs["data_file"])
        saved == to_csv(MergedDf(base_df))
    IN  /\ Turn(5)
        /\ fs' = IF base_df.rows = <<>> THEN fs
                 ELSE [fs EXCEPT !["merged_output_file"] = saved]
        /\ run' = Idle
        /\ prevFull' =
              IF run.op # "full" \/ base_df.rows = <<>> THEN prevFull
              ELSE IF prevFull.valid /\ prevFull.base = fs["data_file"].rows
              THEN [prevFull EXCEPT !.second = TRUE, !.unprocessed = run.unprocessed]
              ELSE [valid |-> TRUE, second |-> FALSE, base |-> fs["data_file"].rows,
                    analyzed |-> saved, unprocessed |-> run.unprocessed]
        /\ UNCHANGED <<log, disp, pure>>

\* run_full_analysis is entered: its five steps follow in order
run_full_analysis ==
    /\ run.op = "idle"
    /\ run' = [op |-> "full", pc |-> 1, unprocessed |-> <<>>]
    /\ UNCHANGED <<fs, log, prevFull, disp, pure>>

T3 == <<"3">>
BigQ == <<"Q", " ">>
W == <<"w">>

\* The rows the base dataset grows by: a THUMBS_DOWN without comment, a
\* THUMBS_DOWN with a comment, and a row that shares its identity fields with
\* the first and differs in the other columns
BaseRows ==
    {RawRow(T1, Q, A, THUMBS_DOWN, NaN),
     RawRow(T3, W, A, THUMBS_DOWN, UserText), RawRow(T1, Q, A, THUMBS_UP, UserText)}

\* Between the operations the base dataset grows by a row
AppendBase ==
    /\ run.op = "idle"
    /\ Len(fs["data_file"].rows) < MaxBase
    /\ \E row \in BaseRows :
          fs' = [fs EXCEPT !["data_file"] =
                    to_csv(RangeDf(Load(fs["data_file"]).rows \o <<row>>))]
    /\ prevFull' = NoFull
    /\ UNCHANGED <<run, log, disp, pure>>

Init ==
    /\ fs = [f \in FileNames |->
                IF f = "mapped_questions_file"
                THEN [exists |-> TRUE, readable |-> TRUE, rows |-> <<[question |-> BigQ]>>]
                ELSE NoFile]
    /\ run = Idle
    /\ log = NoLog
    /\ prevFull = NoFull
    /\ disp = <<>> /\ pure = <<>>

\* The annotation steps, run one at a time in any order (the menu's options
\* 1 to 4) over a base dataset that grows between them
Next ==
    \/ AppendBase
    \/ process_comments_only
    \/ process_categories_only
    \/ process_feedback_comment_categories_only
    \/ process_scenarios_only

Spec == Init /\ [][Next]_vars

\* Full runs (the menu's option 6) over a base dataset that grows between
\* them: the four steps in order, then merge_files
NextFull ==
    \/ AppendBase
    \/ run_full_analysis
    \/ run.op = "full" /\ process_comments_only
    \/ run.op = "full" /\ process_categories_only
    \/ run.op = "full" /\ process_feedback_comment_categories_only
    \/ run.op = "full" /\ process_scenarios_only
    \/ run.op = "full" /\ merge_files

SpecFull == Init /\ [][NextFull]_vars

\* Full runs, and between them the menu's option 3 (comment-failure
\* classification alone), which may come before any comments output exists
NextOrder ==
    \/ AppendBase
    \/ run_full_analysis
    \/ run.op = "full" /\ process_comments_only
    \/ run.op = "full" /\ process_categories_only
    \/ process_feedback_comment_categories_only
    \/ run.op = "full" /\ process_scenarios_only
    \/ run.op = "full" /\ merge_files

SpecOrder == Init /\ [][NextOrder]_vars

---------------------------------------------------------------------------
(* One full run and its repetition over a base dataset of three records,  *)
(* with a capability that answers every call                              *)

\* A THUMBS_DOWN without comment, a THUMBS_UP and a THUMBS_DOWN with a comment
EndToEndBases ==
    {<<RawRow(T1, q1, A, THUMBS_DOWN, c1), RawRow(T2, q2, A, THUMBS_UP, c2),
       RawRow(T3, q3, A, THUMBS_DOWN, UserText)>> :
        q1 \in {Q, BigQ, W}, q2 \in {Q, BigQ, W}, q3 \in {Q, BigQ, W},
        c1 \in {NaN, Blank}, c2 \in {NaN, UserText}}

InitEndToEnd ==
    /\ \E base \in EndToEndBases :
          fs = [f \in FileNames |->
                  IF f = "mapped_questions_file"
                  THEN [exists |-> TRUE, readable |-> TRUE,
                        rows |-> <<[question |-> BigQ]>>]
                  ELSE IF f = "data_file" THEN to_csv(RangeDf(base))
                  ELSE NoFile]
    /\ run = Idle
    /\ log = NoLog
    /\ prevFull = NoFull
    /\ disp = <<>> /\ pure = <<>>

NextEndToEnd ==
    \/ run_full_analysis
    \/ run.op = "full" /\ ProcessWith("comments", TRUE)
    \/ run.op = "full" /\ ProcessWith("categories", TRUE)
    \/ run.op = "full" /\ ProcessWith("comment_categories", TRUE)
    \/ run.op = "full" /\ ProcessWith("scenarios", TRUE)
    \/ run.op = "full" /\ merge_files

SpecEndToEnd == InitEndToEnd /\ [][NextEndToEnd]_vars

---------------------------------------------------------------------------
(* merge_files over any base dataset and any set of output files *)

MergeRows ==
    {RawRow(T1, Q, A, THUMBS_DOWN, NaN), RawRow(T3, W, A, THUMBS_DOWN, UserText)}

\* What a step has saved for a row: the annotation names the record it was
\* computed for
OutputRow(step, row) ==
    CASE step = "comments" ->
            [row EXCEPT !.feedback_comment =
                IF IsNa(@) THEN <<"g">> \o row.request_time ELSE @]
      [] step = "categories" ->
            [row EXCEPT !.category = <<"c">> \o row.request_time,
                        !.sub_category = <<"s">> \o row.request_time]
      [] step = "comment_categories" ->
            [row EXCEPT !.feedback_comment =
                            IF IsNa(@) THEN <<"g">> \o row.request_time ELSE @,
                        !.feedback_comment_category = <<"f">> \o row.request_time]
      [] OTHER -> [row EXCEPT !.scenario =
                      IF row.user_question = Q THEN ScenarioA ELSE ScenarioB]

SavedOutput(step, rows) ==
    to_csv(RangeDf([i \in DOMAIN rows |-> OutputRow(step, rows[i])]))

\* Each output file is missing, holds the rows of the base dataset, or holds
\* the rows of another dataset (another order, another set of rows)
InitMerge ==
    /\ \E base \in SeqsUpTo(MergeRows, MaxMerge),
          other \in SeqsUpTo(MergeRows, MaxMerge) \ {<<>>},
          holds \in [Steps -> {"missing", "base", "other"}] :
          fs = [f \in FileNames |->
                  IF f = "data_file" THEN to_csv(RangeDf(base))
                  ELSE IF \E step \in Steps : OutputFile(step) = f
                  THEN LET step == CHOOSE st \in Steps : OutputFile(st) = f
                       IN  IF holds[step] = "missing" \/
                              (holds[step] = "base" /\ base = <<>>)
                           THEN NoFile
                           ELSE SavedOutput(step, IF holds[step] = "base"
                                                  THEN base ELSE other)
                  ELSE NoFile]
    /\ run = Idle
    /\ log = NoLog
    /\ prevFull = NoFull
    /\ disp = <<>> /\ pure = <<>>

NextMerge == merge_files

SpecMerge == InitMerge /\ [][NextMerge]_vars

---------------------------------------------------------------------------
(* FeedbackReportGenerator.generate_and_save_report over an analyzed       *)
(* dataset: which columns each analysis reads, and what a missing one does *)

\* The columns an analyzed dataset may lack: the annotation columns of the
\* outputs that merge_files did not find, and the comment column
OptionalColumns ==
    {"feedback_comment", "category", "sub_category", "feedback_comment_category",
     "scenario"}

\* The analyses of generate_markdown_report in the order it runs them
Analyses ==
    <<"calculate_basic_metrics", "analyze_temporal_patterns",
      "analyze_category_performance", "analyze_content_quality",
      "analyze_negative_feedback", "analyze_question_types",
      "generate_recommendations", "analyze_feedback_categories_by_date">>

\* The optional columns an analysis reads without testing for them: a missing
\* one raises KeyError
Reads(analysis, ratings) ==
    CASE analysis = "calculate_basic_metrics" -> {"feedback_comment"}
      [] analysis = "analyze_category_performance" ->
            {"category", "sub_category", "feedback_comment"}
      [] analysis = "analyze_negative_feedback" ->
            IF \E i \in DOMAIN ratings : ratings[i] = THUMBS_DOWN
            THEN {"category", "feedback_comment_category"}
            ELSE {}
      [] analysis = "analyze_feedback_categories_by_date" ->
            {"feedback_comment_category"}
      [] OTHER -> {}

\* The optional columns an analysis tests for ("'scenario' not in
\* filtered_df.columns", "if 'feedback_comment' in negative_feedback.columns"):
\* without them it leaves its sub-analysis out
Tests(analysis, ratings) ==
    CASE analysis = "analyze_temporal_patterns" -> {"scenario"}
      [] analysis = "analyze_negative_feedback" ->
            IF \E i \in DOMAIN ratings : ratings[i] = THUMBS_DOWN
            THEN {"feedback_comment"} ELSE {}
      [] OTHER -> {}

ReportIdle(cols, ratings) ==
    [cols |-> cols, ratings |-> ratings, pc |-> 0, produced |-> {}, skipped |-> {},
     raised |-> {}, saved |-> FALSE]

\* load_data and the test for an empty dataset: the report of an empty
\* dataset is the error line, which is saved like any report
load_data ==
    /\ pure.pc = 0
    /\ pure' = [pure EXCEPT !.pc = IF pure.ratings = <<>> THEN Len(Analyses) + 1 ELSE 1]
    /\ UNCHANGED <<fs, run, log, prevFull, disp>>

\* One analysis of generate_markdown_report: a KeyError leaves
\* generate_and_save_report before save_report (main prints it)
Analyse(n) ==
    LET analysis == Analyses[n]
    IN  /\ pure.pc = n
        /\ IF Reads(analysis, pure.ratings) \subseteq pure.cols
           THEN pure' = [pure EXCEPT
                    !.pc = n + 1,
                    !.produced = @ \cup {analysis},
                    !.skipped = @ \cup (Tests(analysis, pure.ratings) \ pure.cols)]
           ELSE pure' = [pure EXCEPT
                    !.pc = -1,
                    !.raised = Reads(analysis, pure.ratings) \ pure.cols]
        /\ UNCHANGED <<fs, run, log, prevFull, disp>>

save_report ==
    /\ pure.pc = Len(Analyses) + 1
    /\ pure' = [pure EXCEPT !.pc = Len(Analyses) + 2, !.saved = TRUE]
    /\ UNCHANGED <<fs, run, log, prevFull, disp>>

InitReport ==
    /\ \E cols \in SUBSET OptionalColumns,
          ratings \in SeqsUpTo({THUMBS_UP, THUMBS_DOWN}, MaxReport) :
          pure = ReportIdle(cols, ratings)
    /\ fs = <<>> /\ run = <<>> /\ log = <<>> /\ prevFull = <<>> /\ disp = <<>>

NextReport ==
    \/ load_data
    \/ \E n \in DOMAIN Analyses : Analyse(n)
    \/ save_report

SpecReport == InitReport /\ [][NextReport]_vars

---------------------------------------------------------------------------
(* Claims about filter and merge *)

WithKey(df, X) == {i \in DOMAIN df.rows : create_record_key(df.rows[i]) = X}

Last(S) == CHOOSE x \in S : \A y \in S : y <= x

PriorDf == read_csv(pure.file)

\* C3: merge is last-write-wins.  When the prior output is readable, every
\* identity X that is both in the prior output and in the new batch has
\* exactly one row in the merged result, and it is the new batch's (last) row
\* for X, so a prior annotation "old" is replaced by the batch's "new"; every
\* identity that is only in the prior output has exactly one row in the
\* result, which is its (last) prior row.
C3_MergeLastWriteWins ==
    (pure.op = "merge" /\ pure.file.exists /\ pure.file.readable) =>
        /\ \A X \in KeysOf(PriorDf) \cap KeysOf(pure.df) :
              /\ Cardinality(WithKey(pure.out, X)) = 1
              /\ \A i \in WithKey(pure.out, X) :
                    pure.out.rows[i] = pure.df.rows[Last(WithKey(pure.df, X))]
        /\ \A X \in KeysOf(PriorDf) \ KeysOf(pure.df) :
              /\ Cardinality(WithKey(pure.out, X)) = 1
              /\ \A i \in WithKey(pure.out, X) :
                    pure.out.rows[i] = PriorDf.rows[Last(WithKey(PriorDf, X))]

\* C3 witness: the prior output holds X with "old" and another identity, the
\* batch holds X with "new", and the merge has run.
C3_Witness ==
    /\ pure.op = "merge" /\ pure.file.exists /\ pure.file.readable
    /\ \E i \in DOMAIN PriorDf.rows, j \in DOMAIN pure.df.rows, k \in DOMAIN pure.out.rows :
          /\ create_record_key(PriorDf.rows[i]) = create_record_key(pure.df.rows[j])
          /\ PriorDf.rows[i].category = Old
          /\ pure.df.rows[j].category = New
          /\ pure.out.rows[k] = pure.df.rows[j]
    /\ KeysOf(PriorDf) \ KeysOf(pure.df) # {}

\* C5: with a readable prior output, the filter returns exactly the rows of
\* the current dataset whose identity is not an identity of the prior output,
\* in their original order and under their original index labels.
C5_FilterExact ==
    (pure.op = "filter" /\ pure.file.exists /\ pure.file.readable) =>
        LET U == {i \in DOMAIN pure.df.rows :
                    create_record_key(pure.df.rows[i]) \notin KeysOf(PriorDf)}
        IN  /\ Len(pure.out.rows) = Cardinality(U)
            /\ Len(pure.out.index) = Cardinality(U)
            /\ \A j \in DOMAIN pure.out.rows : \E i \in U :
                  /\ Cardinality({h \in U : h < i}) = j - 1
                  /\ pure.out.index[j] = pure.df.index[i]
                  /\ pure.out.rows[j] = pure.df.rows[i]

\* C5 witness: the filter has dropped a processed row that precedes a row it
\* kept.
C5_Witness ==
    /\ pure.op = "filter" /\ pure.file.exists /\ pure.file.readable
    /\ Len(pure.df.rows) = 2 /\ Len(pure.out.rows) = 1
    /\ pure.out.rows[1] = pure.df.rows[2]
    /\ pure.out.index[1] = pure.df.index[2]

---------------------------------------------------------------------------
(* Claims about one dispatcher call *)

InFlight == {i \in DOMAIN disp.pc : disp.pc[i] = "call"}

\* A field of a reply that is there and not empty
Usable(v) == v # Absent /\ v # EmptyStr

\* A comment with at least one character that is not whitespace
NonBlankText(c) == c # NaN /\ c # None /\ \E j \in DOMAIN c : c[j] # " "

\* C1: at no instant of a dispatcher call are more capability calls
\* outstanding than the call's concurrency limit.
C1_ConcurrencyBound == Cardinality(InFlight) <= disp.max_concurrent

\* C1 witness: a batch larger than the limit, the limit reached, a task
\* waiting at the gate.
C1_Witness ==
    /\ disp.phase = "running"
    /\ Len(disp.df.rows) > disp.max_concurrent
    /\ Cardinality(InFlight) = disp.max_concurrent
    /\ \E i \in DOMAIN disp.pc : disp.pc[i] = "gate"

\* C2: a dispatcher call returns a row for every record of the batch, under
\* the batch's index; a record whose call succeeded with usable values carries
\* exactly those values, whatever happened to the other records, and a record
\* whose call failed carries the default (category) or blank value.
C2_FailureIsolation ==
    disp.phase = "returned" =>
        /\ disp.result_df.index = disp.df.index
        /\ Len(disp.result_df.rows) = Len(disp.df.rows)
        /\ \A i \in disp.sent :
             LET r == disp.got[i]
                 row == disp.result_df.rows[i]
             IN  CASE disp.kind = "categories" ->
                        /\ (r.ok /\ Usable(r.category) /\ Usable(r.sub_category))
                              => (row.category = r.category
                                    /\ row.sub_category = r.sub_category)
                        /\ ~r.ok => (row.category = Other /\ row.sub_category = General)
                   [] disp.kind = "comments" ->
                        /\ (r.ok /\ Usable(r.comment)) => row.feedback_comment = r.comment
                        /\ ~r.ok =>
                              row.feedback_comment = disp.df.rows[i].feedback_comment
                   [] OTHER ->
                        /\ (r.ok /\ Usable(r.feedback_comment_category)) =>
                              row.feedback_comment_category = r.feedback_comment_category
                        /\ ~r.ok => row.feedback_comment_category = EmptyStr

\* C2 witness: a returned comment batch of at least two applicable records,
\* the first of which failed and the others of which succeeded.
C2_Witness ==
    /\ disp.phase = "returned" /\ disp.kind = "comments"
    /\ Len(disp.df.rows) >= 2
    /\ disp.sent = DOMAIN disp.df.rows
    /\ ~disp.got[1].ok
    /\ ~NonBlankText(disp.result_df.rows[1].feedback_comment)
    /\ \A i \in DOMAIN disp.df.rows :
          i > 1 => (disp.got[i].ok /\ disp.result_df.rows[i].feedback_comment = Generated)

\* C9: a THUMBS_UP record is never sent to comment generation nor to
\* comment-failure classification; when the call returns, its comment is the
\* one it came with (no generated comment) and its feedback_comment_category
\* is empty.
C9_ThumbsUpGated ==
    disp.kind \in {"comments", "comment_categories"} =>
        \A i \in DOMAIN disp.df.rows :
            disp.df.rows[i].feedback_rating = THUMBS_UP =>
                /\ i \notin disp.sent
                /\ i \in DOMAIN disp.pc => disp.pc[i] # "call"
                /\ (disp.phase = "returned" /\ disp.kind = "comments") =>
                      disp.result_df.rows[i].feedback_comment
                          = disp.df.rows[i].feedback_comment
                /\ (disp.phase = "returned" /\ disp.kind = "comment_categories") =>
                      disp.result_df.rows[i].feedback_comment_category = EmptyStr

\* C9 witness: a returned comment-failure classification whose batch holds a
\* THUMBS_UP record with a written comment next to a classified record.
C9_Witness ==
    /\ disp.phase = "returned" /\ disp.kind = "comment_categories"
    /\ \E i, j \in DOMAIN disp.df.rows :
          /\ disp.df.rows[i].feedback_rating = THUMBS_UP
          /\ disp.df.rows[i].feedback_comment = UserText
          /\ j \in disp.sent
          /\ disp.result_df.rows[j].feedback_comment_category = Irrelevant

\* C10: comment-failure classification calls the capability only for
\* THUMBS_DOWN records with a non-blank comment; every other record gets the
\* empty result and an empty feedback_comment_category, and causes no call.
C10_CommentCategoryGate ==
    disp.kind = "comment_categories" =>
        /\ \A i \in disp.sent \cup InFlight :
              /\ disp.df.rows[i].feedback_rating = THUMBS_DOWN
              /\ NonBlankText(disp.df.rows[i].feedback_comment)
        /\ disp.phase = "returned" =>
              \A i \in DOMAIN disp.df.rows :
                  ~(/\ disp.df.rows[i].feedback_rating = THUMBS_DOWN
                    /\ NonBlankText(disp.df.rows[i].feedback_comment)) =>
                      /\ i \notin disp.sent
                      /\ disp.got[i] = NoResponse
                      /\ disp.results[i] = <<disp.df.index[i], EmptyStr>>
                      /\ disp.result_df.rows[i].feedback_comment_category = EmptyStr

\* C10 witness: a returned batch with a THUMBS_DOWN record whose comment is
\* missing, one whose comment is whitespace, and one that was classified.
C10_Witness ==
    /\ disp.phase = "returned" /\ disp.kind = "comment_categories"
    /\ \E i, j, h \in DOMAIN disp.df.rows :
          /\ disp.df.rows[i] = RawRow(T1, Q, A, THUMBS_DOWN, NaN)
          /\ disp.df.rows[j] = RawRow(T1, Q, A, THUMBS_DOWN, Blank)
          /\ h \in disp.sent


\* The reply to the call of record i (none when the record caused no call)
ReplyOf(i) == IF i \in DOMAIN disp.got THEN disp.got[i] ELSE NoResponse

\* The record at position i as a batch of its own, under its own label
Alone(i) == [index |-> <<disp.df.index[i]>>, rows |-> <<disp.df.rows[i]>>]

\* C23: every result is written to the record it was computed for: a task's
\* result carries its own record's label, and the returned batch is, row for
\* row, what each record alone with its own reply would have become, so it
\* is the same for every order in which the calls complete.
C23_OrderIndependence ==
    /\ disp.phase = "running" =>
          \A i \in DOMAIN disp.pc :
              disp.pc[i] = "done" => disp.results[i][1] = disp.df.index[i]
    /\ disp.phase = "returned" =>
          /\ disp.result_df.index = disp.df.index
          /\ DOMAIN disp.result_df.rows = DOMAIN disp.df.rows
          /\ \A i \in DOMAIN disp.df.rows :
                disp.result_df.rows[i]
                    = Enrich(disp.kind, Alone(i), <<ReplyOf(i)>>).rows[1]

\* C23 witness: a returned category batch of three records whose calls were
\* all made with two slots and got three different replies, each found in
\* its own row
C23_Witness ==
    /\ disp.phase = "returned" /\ disp.kind = "categories"
    /\ disp.max_concurrent = 2
    /\ Len(disp.df.rows) = 3 /\ disp.sent = {1, 2, 3}
    /\ ~disp.got[1].ok /\ disp.result_df.rows[1].category = Other
    /\ disp.got[2].sub_category = Absent
    /\ disp.result_df.rows[2].sub_category = General
    /\ disp.got[3].sub_category = HsbcOne
    /\ disp.result_df.rows[3].sub_category = HsbcOne

\* The frame of add_comments_async, with the condition on the reply given
\* as a parameter
CommentFrame(Written(_)) ==
    (disp.kind = "comments" /\ disp.phase = "returned") =>
        /\ disp.result_df.index = disp.df.index
        /\ DOMAIN disp.result_df.rows = DOMAIN disp.df.rows
        /\ \A i \in DOMAIN disp.df.rows :
              LET old == disp.df.rows[i]
                  new == disp.result_df.rows[i]
              IN  /\ \A c \in Columns \ {"feedback_comment"} : new[c] = old[c]
                  /\ new.feedback_comment # old.feedback_comment =>
                        /\ old.feedback_rating = THUMBS_DOWN
                        /\ ~NonBlankText(old.feedback_comment)
                        /\ ReplyOf(i).ok
                        /\ Written(ReplyOf(i).comment)
                        /\ new.feedback_comment = ReplyOf(i).comment

\* C29: add_comments_async changes feedback_comment only in THUMBS_DOWN rows
\* whose comment is missing or blank, and only to a non-blank comment that
\* the capability returned; it changes no other row, no other column, not
\* the set of rows and not the dataframe it was given.
C29_CommentFrame ==
    /\ [](CommentFrame(NonBlankText))
    /\ [][disp.kind = "comments" => disp'.df = disp.df]_vars

\* C29 as the code has it: the comment written is any non-empty text the
\* capability returned, a comment of whitespace included.
C29_CommentFrameAmended ==
    /\ [](CommentFrame(Usable))
    /\ [][disp.kind = "comments" => disp.df = disp'.df]_vars

\* C29 witness: a returned comment batch in which a missing comment was
\* replaced and a written comment, a THUMBS_UP row and a failed row were not
C29_Witness ==
    /\ disp.kind = "comments" /\ disp.phase = "returned"
    /\ Len(disp.df.rows) = 3
    /\ \E i, j, h \in DOMAIN disp.df.rows :
          /\ i \in disp.sent /\ disp.got[i].ok
          /\ IsNa(disp.df.rows[i].feedback_comment)
          /\ disp.result_df.rows[i].feedback_comment = Generated
          /\ j \in disp.sent /\ ~disp.got[j].ok
          /\ disp.result_df.rows[j] = disp.df.rows[j]
          /\ disp.df.rows[h].feedback_comment = UserText
          /\ disp.result_df.rows[h] = disp.df.rows[h]

---------------------------------------------------------------------------
(* Claims about runs of the pipeline *)

\* The rows of an output file as the next run loads them
Saved(f) == Load(fs[f])

\* C4: when a full run on a base dataset is followed by a second full run on
\* the unchanged base dataset, the second run finds 0 unprocessed records in
\* each of its four steps, and the analyzed dataset after the second run is
\* the one the first run wrote.
C4_IdempotentFullRun ==
    prevFull.second =>
        /\ prevFull.unprocessed = <<0, 0, 0, 0>>
        /\ fs["merged_output_file"] = prevFull.analyzed

\* C4 witness: two full runs have completed on the same base dataset of two
\* records, and the analyzed dataset holds both.
C4_Witness ==
    /\ prevFull.second
    /\ run.op = "idle"
    /\ Len(prevFull.base) = 2
    /\ Len(Saved("merged_output_file").rows) = 2

\* C6: in a step's run, no record whose identity was in the step's output
\* file when the run started is sent to the capability.
C6_NoReprocessing == log.sent \cap log.prior_keys = {}

\* C6 witness: a step has run over an output file that already held an
\* identity, and sent a record to the capability.
C6_Witness ==
    /\ log.saved
    /\ log.prior_keys # {}
    /\ log.sent # {}

\* C7: after a step has merged and saved, the identities in its output file
\* are those of the prior output together with those of the new batch; so
\* every identity the file held before the run is in it after the run.
C7_NoDataLoss ==
    log.saved =>
        /\ KeysOf(Saved(OutputFile(log.step))) = log.prior_keys \cup log.batch_keys
        /\ log.prior_keys \subseteq KeysOf(Saved(OutputFile(log.step)))

\* C7 witness: a step has merged a batch with a new identity into an output
\* file that held another identity.
C7_Witness ==
    /\ log.saved
    /\ log.prior_keys # {}
    /\ log.batch_keys \ log.prior_keys # {}
    /\ Cardinality(KeysOf(Saved(OutputFile(log.step)))) = 2

\* C8: every output file of a step holds at most one row per identity, also
\* after the first run, when there was no prior output.
C8_DeduplicatedOutputs ==
    \A f \in OutputFiles :
        \A i, j \in DOMAIN Saved(f).rows :
            create_record_key(Saved(f).rows[i]) = create_record_key(Saved(f).rows[j])
                => i = j

\* The annotation a step leaves when the call of a record failed
DefaultAnnotation(step, row) ==
    CASE step = "comments" -> ~NonBlankText(row.feedback_comment)
      [] step = "categories" -> row.category = Other /\ row.sub_category = General
      [] step = "comment_categories" -> ~NonBlankText(row.feedback_comment_category)
      [] OTHER -> FALSE

LastRow(df, X) == df.rows[Last(WithKey(df, X))]

\* C28: a record whose capability call failed in a run is written to the
\* step's output with the blank or default annotation and is from then on a
\* processed identity (stated for a record that shares its identity with no
\* other row of the step's input); and a later run of the step never sends an
\* identity whose saved row carries the blank or default annotation, and
\* leaves that row as it is.
C28_FailedNeverRetried ==
    /\ [](log.saved =>
            \A X \in log.failed :
                Cardinality(WithKey(Saved(InputFile(log.step)), X)) = 1 =>
                    /\ X \in get_processed_records(fs[OutputFile(log.step)])
                    /\ Cardinality(WithKey(Saved(OutputFile(log.step)), X)) = 1
                    /\ DefaultAnnotation(log.step, LastRow(Saved(OutputFile(log.step)), X)))
    /\ [][fs'["data_file"] = fs["data_file"] =>
            LET old == Load(fs[OutputFile(log'.step)])
                new == Load(fs'[OutputFile(log'.step)])
            IN  \A X \in KeysOf(old) :
                    DefaultAnnotation(log'.step, LastRow(old, X)) =>
                        /\ X \notin log'.sent
                        /\ X \in KeysOf(new)
                        /\ LastRow(new, X) = LastRow(old, X)]_vars

\* C28 witness: a run of categorization that sent a new record while the
\* output held a record left with the default pair by an earlier run; that
\* record was not sent and still has the default pair
C28_Witness ==
    /\ log.step = "categories" /\ log.saved /\ log.sent # {}
    /\ \E X \in log.start_keys :
          /\ X \notin log.sent
          /\ LastRow(Saved("categories_output_file"), X).category = Other
          /\ LastRow(Saved("categories_output_file"), X).sub_category = General

KeySeq(rows) ==
    [i \in DOMAIN rows |-> create_record_key([c \in Columns |-> ReadCell(rows[i][c])])]

\* C25: while the base dataset has pairwise distinct identities and grows by
\* appended rows only, after every full run each of the four outputs holds
\* the base dataset's identities in the base dataset's order, and every row
\* of the analyzed dataset carries the annotations saved for its own identity.
C25_AlignedUnderAppend ==
    LET base == fs["data_file"].rows
        merged == fs["merged_output_file"].rows
    IN  (/\ prevFull.valid
         /\ \A i, j \in DOMAIN base : KeySeq(base)[i] = KeySeq(base)[j] => i = j) =>
            /\ \A step \in Steps : KeySeq(fs[OutputFile(step)].rows) = KeySeq(base)
            /\ KeySeq(merged) = KeySeq(base)
            /\ \A step \in Steps : \A i \in DOMAIN merged :
                  \A j \in DOMAIN fs[OutputFile(step)].rows :
                      KeySeq(fs[OutputFile(step)].rows)[j] = KeySeq(merged)[i] =>
                          \A c \in OutputColumns(step) :
                              merged[i][c] = fs[OutputFile(step)].rows[j][c]

\* C25 witness: a full run over a base dataset of two identities, each step
\* of which found one unprocessed record (the row appended after an earlier
\* full run), has written the analyzed dataset
C25_Witness ==
    /\ prevFull.valid /\ ~prevFull.second
    /\ prevFull.unprocessed = <<1, 1, 1, 1>>
    /\ Len(fs["data_file"].rows) = 2
    /\ KeySeq(fs["data_file"].rows)[1] # KeySeq(fs["data_file"].rows)[2]
    /\ Len(fs["merged_output_file"].rows) = 2

\* C30: in a full run the comments output holds every base identity before
\* comment-failure classification starts, all four outputs do before
\* merge_files starts, and the comment that step 3 classifies for a record is
\* the one in the comments output, the one generated in step 1 of the same
\* run included; and as long as there is no comments output, comment-failure
\* classification makes no call and writes no output.
C30_StepOrder ==
    LET base == KeysOf(Saved("data_file"))
        comments == Saved("comments_output_file")
        classified == Saved("comment_categories_output_file")
    IN  /\ (run.op = "full" /\ run.pc >= 3) => base \subseteq KeysOf(comments)
        /\ (run.op = "full" /\ run.pc = 5) =>
              \A f \in OutputFiles : base \subseteq KeysOf(Saved(f))
        /\ (run.op = "full" /\ run.pc >= 4) =>
              \A i \in DOMAIN comments.rows :
                  \E j \in DOMAIN classified.rows :
                      /\ create_record_key(classified.rows[j])
                            = create_record_key(comments.rows[i])
                      /\ classified.rows[j].feedback_comment
                            = comments.rows[i].feedback_comment
        /\ (log.step = "comment_categories" /\ log.saved) =>
              \A X \in log.sent :
                  \E i \in WithKey(comments, X), j \in WithKey(classified, X) :
                      /\ comments.rows[i].feedback_rating = THUMBS_DOWN
                      /\ NonBlankText(comments.rows[i].feedback_comment)
                      /\ classified.rows[j].feedback_comment
                            = comments.rows[i].feedback_comment
        /\ ~fs["comments_output_file"].exists =>
              /\ ~fs["comment_categories_output_file"].exists
              /\ log.step = "comment_categories" => (log.sent = {} /\ ~log.saved)

\* C30 witness: step 3 of a first full run has classified the comment that
\* step 1 of the same run generated
C30_Witness ==
    /\ run.op = "full" /\ run.pc = 4
    /\ ~prevFull.valid
    /\ log.step = "comment_categories" /\ log.saved
    /\ run.unprocessed[1] > 0
    /\ \E X \in log.sent :
          /\ LastRow(Saved("data_file"), X).feedback_rating = THUMBS_DOWN
          /\ IsNa(LastRow(Saved("data_file"), X).feedback_comment)
          /\ LastRow(Saved("comment_categories_output_file"), X).feedback_comment
                = Generated

---------------------------------------------------------------------------
(* Claims about the scenario tagger *)

\* The known questions as the tagger compares them
KnownSet == load_mapped_questions(pure.file)

\* The rows of the tagged result whose user_question is uq
Asked(uq) == {i \in DOMAIN pure.out.rows : pure.out.rows[i].user_question = uq}

\* C11 (as stated): a record is tagged A when its question matches a known
\* question whatever the case and the whitespace, and B otherwise; with the
\* known questions {"what is fps"}, "What is FPS?" is tagged A and "How do I
\* open an account?" is tagged B.
C11_ScenarioClassification ==
    (pure.op = "scenario" /\ KnownSet = {KnownFps}) =>
        /\ \A i \in Asked(AskedFps) : pure.out.rows[i].scenario = ScenarioA
        /\ \A i \in Asked(AskedAccount) : pure.out.rows[i].scenario = ScenarioB

\* C11 (amended): a record is tagged A exactly when its question, in lower
\* case and without leading and trailing whitespace, is equal to a known
\* question normalised the same way, and B otherwise; punctuation and inner
\* whitespace are compared as they are.  With the known questions
\* {"what is fps"}: " What is FPS " is tagged A; "What is FPS?",
\* "what  is fps" and "How do I open an account?" are tagged B.
C11_ScenarioClassificationAmended ==
    pure.op = "scenario" =>
        /\ Len(pure.out.rows) = Len(pure.df.rows)
        /\ \A i \in DOMAIN pure.out.rows :
              LET uq == Fmt(pure.df.rows[i].user_question)
                  known == {pure.file.rows[j].question : j \in DOMAIN pure.file.rows}
                  matches == /\ pure.file.exists /\ pure.file.readable
                             /\ \E k \in known : Strip(Lower(k)) = Strip(Lower(uq))
              IN  pure.out.rows[i].scenario = IF matches THEN ScenarioA ELSE ScenarioB
        /\ KnownSet = {KnownFps} =>
              /\ \A i \in Asked(AskedFpsPadded) \cup Asked(KnownFps) :
                    pure.out.rows[i].scenario = ScenarioA
              /\ \A i \in Asked(AskedFps) \cup Asked(AskedFpsWide) \cup Asked(AskedAccount) :
                    pure.out.rows[i].scenario = ScenarioB

\* C11 witness: with the known questions {"what is fps"}, stored in upper case
\* with a trailing blank, the tagger has tagged " What is FPS " and
\* "What is FPS?".
C11_Witness ==
    /\ pure.op = "scenario"
    /\ KnownSet = {KnownFps}
    /\ pure.file.rows[1].question # KnownFps
    /\ Asked(AskedFpsPadded) # {}
    /\ Asked(AskedFps) # {}

---------------------------------------------------------------------------
(* Claims about the record identity *)

\* Two rows agree on the three identity fields
SameIdentityFields(a, b) ==
    /\ a.request_time = b.request_time
    /\ a.user_question = b.user_question
    /\ a.bot_answer = b.bot_answer

\* C12: create_record_key gives two rows the same key only if they agree on
\* request_time, user_question and bot_answer, also when a field holds the
\* character '|'.
C12_KeyUnique ==
    (pure.op # "none" /\ pure.key_a = pure.key_b) => SameIdentityFields(pure.a, pure.b)

---------------------------------------------------------------------------
(* Claims about the completion of a dispatcher call *)

\* C14: a dispatcher call returns only when every task of the batch has
\* finished and left its result; and with a limit of at least 1 and every
\* capability call returning or failing, the call eventually returns.
C14_BatchCompletion ==
    /\ [](disp.phase = "returned" =>
            /\ \A i \in DOMAIN disp.pc : disp.pc[i] = "done"
            /\ \A i \in DOMAIN disp.results : disp.results[i] # <<>>)
    /\ <>(disp.phase = "returned")

\* C14 witness: a call has returned whose batch was larger than the limit and
\* all of whose tasks called the capability.
C14_Witness ==
    /\ disp.phase = "returned"
    /\ disp.max_concurrent >= 1
    /\ Len(disp.df.rows) > disp.max_concurrent
    /\ disp.sent = DOMAIN disp.df.rows
    /\ \E i \in disp.sent : ~disp.got[i].ok

---------------------------------------------------------------------------
(* Claims about the limit of a dispatcher call *)

\* C15: for each of the three kinds, a dispatcher call that is passed no
\* limit creates its semaphore with the configured value, and the configured
\* value is 20 only when nothing was configured.
C15_ConfiguredLimit ==
    /\ disp.pc # "start" =>
          disp.self_max_concurrent = (IF disp.env = Unset THEN DefaultLimit ELSE disp.env.value)
    /\ (disp.pc = "gate" /\ disp.passed = NotPassed) =>
          disp.semaphore = disp.self_max_concurrent

---------------------------------------------------------------------------
(* Claims about the values a dispatcher call leaves *)

\* C16: after add_categories_async every row of the batch carries the pair
\* the capability returned or, when the call failed or a field of the reply is
\* absent or unusable, the pair ("other", "General"); no row is left with a
\* blank category or sub_category.
C16_CategoryCoverage ==
    (disp.phase = "returned" /\ disp.kind = "categories") =>
        \A i \in DOMAIN disp.df.rows :
            LET r == disp.got[i]
                row == disp.result_df.rows[i]
                usable == r.ok /\ Usable(r.category) /\ Usable(r.sub_category)
            IN  /\ usable => (row.category = r.category
                                /\ row.sub_category = r.sub_category)
                /\ ~usable => (row.category = Other /\ row.sub_category = General)
                /\ row.category # EmptyStr
                /\ row.sub_category # EmptyStr

\* The records of a comment-failure classification that meet its predicate:
\* THUMBS_DOWN with a non-blank comment
Classified ==
    {i \in DOMAIN disp.df.rows :
        /\ disp.df.rows[i].feedback_rating = THUMBS_DOWN
        /\ NonBlankText(disp.df.rows[i].feedback_comment)}

\* C17 (as stated): a THUMBS_DOWN record with a non-blank comment gets the
\* label the capability returned, and "General" when no label is obtained
\* (the call fails or the reply lacks the field).
C17_CommentCategoryDefault ==
    (disp.phase = "returned" /\ disp.kind = "comment_categories") =>
        \A i \in Classified :
            LET r == disp.got[i]
                label == disp.result_df.rows[i].feedback_comment_category
            IN  IF r.ok /\ Usable(r.feedback_comment_category)
                THEN label = r.feedback_comment_category
                ELSE label = General

\* C17 (amended): a THUMBS_DOWN record with a non-blank comment gets the
\* label the capability returned, and the empty text when no label is obtained
\* (the call fails or the reply lacks the field).
C17_CommentCategoryDefaultAmended ==
    (disp.phase = "returned" /\ disp.kind = "comment_categories") =>
        \A i \in Classified :
            LET r == disp.got[i]
                label == disp.result_df.rows[i].feedback_comment_category
            IN  /\ i \in disp.sent
                /\ IF r.ok /\ Usable(r.feedback_comment_category)
                   THEN label = r.feedback_comment_category
                   ELSE label = EmptyStr

\* C17 witness: a returned batch with three classified records: one labelled,
\* one whose call failed, one whose reply lacked the field.
C17_Witness ==
    /\ disp.phase = "returned" /\ disp.kind = "comment_categories"
    /\ \E i, j, h \in Classified :
          /\ disp.result_df.rows[i].feedback_comment_category = Irrelevant
          /\ ~disp.got[j].ok
          /\ disp.got[h].ok /\ disp.got[h].feedback_comment_category = Absent
          /\ disp.result_df.rows[j].feedback_comment_category = EmptyStr
          /\ disp.result_df.rows[h].feedback_comment_category = EmptyStr

---------------------------------------------------------------------------
(* Claims about filter and merge without a prior output *)

\* C18: when the prior output file does not exist or cannot be read, the
\* filter returns the entire current dataset: the same rows under the same
\* labels.
C18_FilterNoPrior ==
    (pure.op = "filter" /\ (~pure.file.exists \/ ~pure.file.readable)) =>
        pure.out = pure.df

\* C18 witness: the filter has run on two rows against a file that cannot be
\* read and that holds the identity of one of them.
C18_Witness ==
    /\ pure.op = "filter"
    /\ pure.file.exists /\ ~pure.file.readable
    /\ Len(pure.df.rows) = 2
    /\ KeysOf(PriorDf) \cap KeysOf(pure.df) # {}
    /\ Len(pure.out.rows) = 2

\* C19: when the prior output file is absent, the merge returns the new batch
\* unchanged: the same rows in the same order with the same values and labels.
C19_MergeNoPrior ==
    (pure.op = "merge" /\ ~pure.file.exists) => pure.out = pure.df

\* C19 witness: the merge has run without a prior output on a batch that
\* holds one identity twice, and returned both rows.
C19_Witness ==
    /\ pure.op = "merge" /\ ~pure.file.exists
    /\ Len(pure.df.rows) = 2
    /\ Cardinality(KeysOf(pure.df)) = 1
    /\ Len(pure.out.rows) = 2

---------------------------------------------------------------------------
(* Claims about the scenario tagger without known questions *)

\* C20: when the list of known questions is empty, missing or unreadable,
\* add_scenario_mapping returns every record of its input, each with
\* scenario B and otherwise as it was.
C20_ScenarioDefault ==
    (pure.op = "scenario"
        /\ (~pure.file.exists \/ ~pure.file.readable \/ pure.file.rows = <<>>)) =>
        /\ pure.out.index = pure.df.index
        /\ Len(pure.out.rows) = Len(pure.df.rows)
        /\ \A i \in DOMAIN pure.out.rows :
              pure.out.rows[i] = [pure.df.rows[i] EXCEPT !.scenario = ScenarioB]

\* C20 witness: the tagger has run without a readable list on two records,
\* one of which asks "what is fps".
C20_Witness ==
    /\ pure.op = "scenario"
    /\ pure.file.exists /\ ~pure.file.readable
    /\ Len(pure.out.rows) = 2
    /\ Asked(KnownFps) # {}
    /\ \A i \in DOMAIN pure.out.rows : pure.out.rows[i].scenario = ScenarioB

---------------------------------------------------------------------------
(* Claims about merge_files *)

\* The cell of an output file at a position, empty past the file's last row
CellAt(file, i, c) == IF i \in DOMAIN file.rows THEN file.rows[i][c] ELSE EmptyStr

\* C21: whichever of the four output files exist, merge_files completes and
\* writes the analyzed dataset over a non-empty base dataset; in it exactly
\* the columns of the outputs that exist are overwritten, and the columns of
\* a missing output and every other column keep the base dataset's values.
C21_MissingOutputsTolerated ==
    /\ [](fs["merged_output_file"].exists =>
            LET merged == fs["merged_output_file"].rows
                base == fs["data_file"].rows
            IN  /\ DOMAIN merged = DOMAIN base
                /\ \A i \in DOMAIN base :
                      /\ \A step \in Steps : \A c \in OutputColumns(step) :
                            merged[i][c] =
                                IF fs[OutputFile(step)].exists
                                THEN CellAt(fs[OutputFile(step)], i, c)
                                ELSE base[i][c]
                      /\ \A c \in Columns \ UNION {OutputColumns(step) : step \in Steps} :
                            merged[i][c] = base[i][c])
    /\ [][fs["data_file"].rows # <<>> => fs'["merged_output_file"].exists]_vars

\* Two outputs exist and two are missing when the analyzed dataset is written
C21_Witness ==
    /\ fs["merged_output_file"].exists
    /\ Len(fs["data_file"].rows) = 2
    /\ fs["comments_output_file"].exists /\ fs["scenarios_output_file"].exists
    /\ ~fs["categories_output_file"].exists
    /\ ~fs["comment_categories_output_file"].exists
    /\ \E i \in DOMAIN fs["data_file"].rows :
          fs["merged_output_file"].rows[i].feedback_comment
              # fs["data_file"].rows[i].feedback_comment

FileKey(row) == create_record_key([c \in Columns |-> ReadCell(row[c])])

\* C24: merge_files gives the base row at position i the annotation at
\* position i of each output that exists, whatever record that output row
\* belongs to, and writes the analyzed dataset without reporting anything.
C24_PositionalConsolidation ==
    fs["merged_output_file"].exists =>
        \A step \in Steps : \A i \in DOMAIN fs["data_file"].rows :
            LET out == fs[OutputFile(step)]
            IN  (out.exists /\ i \in DOMAIN out.rows) =>
                    \A c \in OutputColumns(step) :
                        fs["merged_output_file"].rows[i][c] = out.rows[i][c]

\* A row of the analyzed dataset carries the category computed for another
\* record
C24_Witness ==
    /\ fs["merged_output_file"].exists
    /\ fs["categories_output_file"].exists
    /\ \E i \in DOMAIN fs["data_file"].rows :
          /\ i \in DOMAIN fs["categories_output_file"].rows
          /\ FileKey(fs["categories_output_file"].rows[i])
                # FileKey(fs["data_file"].rows[i])
          /\ fs["merged_output_file"].rows[i].category
                = <<"c">> \o fs["categories_output_file"].rows[i].request_time
          /\ fs["merged_output_file"].rows[i].request_time
                # fs["categories_output_file"].rows[i].request_time

---------------------------------------------------------------------------
(* Claims about a full run *)

NonBlankCell(c) == ~CommentIsBlank(ReadCell(c))

\* C22: after one full run over a base dataset of a THUMBS_DOWN record
\* without comment, a THUMBS_UP record and a THUMBS_DOWN record with a
\* comment, with a capability that answers every call, the analyzed dataset
\* has for the first a generated non-blank comment and a category pair, for
\* the second a category pair and a blank feedback_comment_category, for the
\* third its own comment, a category pair and a feedback_comment_category,
\* and a scenario tag for all three.
C22_EndToEnd ==
    fs["merged_output_file"].exists =>
        LET merged == fs["merged_output_file"].rows
            base == fs["data_file"].rows
        IN  /\ Len(merged) = 3
            /\ \A i \in 1..3 :
                  /\ \A c \in {"request_time", "user_question", "bot_answer",
                                "feedback_rating"} : merged[i][c] = base[i][c]
                  /\ merged[i].category = Accounts
                  /\ merged[i].sub_category = HsbcOne
                  /\ merged[i].scenario \in {ScenarioA, ScenarioB}
            /\ merged[1].feedback_comment = Generated
            /\ NonBlankCell(merged[1].feedback_comment)
            /\ ~NonBlankCell(merged[2].feedback_comment_category)
            /\ merged[3].feedback_comment = base[3].feedback_comment
            /\ NonBlankCell(merged[3].feedback_comment)
            /\ merged[3].feedback_comment_category = Irrelevant

\* The first full run has written the analyzed dataset
C22_Witness ==
    /\ prevFull.valid /\ ~prevFull.second /\ run.op = "idle"
    /\ fs["merged_output_file"].exists
    /\ Len(fs["merged_output_file"].rows) = 3
    /\ fs["merged_output_file"].rows[1].feedback_comment = Generated
    /\ fs["merged_output_file"].rows[1].scenario = ScenarioA
    /\ fs["merged_output_file"].rows[3].scenario = ScenarioB

---------------------------------------------------------------------------
(* Claims about the report *)

\* C27: whichever of the annotation columns the analyzed dataset lacks,
\* report generation over a dataset with rows does not fail: it runs every
\* analysis, leaves out the sub-analyses that need a missing column, and
\* saves the report.
C27_SkipMissingColumn ==
    /\ pure.pc # -1
    /\ pure.saved /\ pure.ratings # <<>> =>
          \A n \in DOMAIN Analyses :
              Reads(Analyses[n], pure.ratings) \subseteq pure.cols
                  => Analyses[n] \in pure.produced

=========================================================================
